---- MODULE Spec2Model ----
(***************************************************************************)
(* A model of glymur's Tiff2Jp2k converter (src/glymur/tiff.py): the       *)
(* raster remapper copy_image, the directory transcoder copy_metadata      *)
(* (_process_header, _process_tags) and the driver run().                  *)
(*                                                                         *)
(* A sample of the source image is modelled by its image position <<r,c>>; *)
(* a zero-filled sample is Zero, a sample of a source unit lying beyond    *)
(* the image edge is Pad.  A pixel buffer is a record                      *)
(*   [rows, cols, ch, px]  with  px : (0..rows-1) \X (0..cols-1) -> sample *)
(***************************************************************************)
EXTENDS Integers, Sequences, FiniteSets, TLC

VARIABLES
    tif,          \* what libtiff reports of the source (self.tiff_fp fields)
    tilesize,     \* self.tilesize: <<jth, jtw>>, or <<>> for None
    pc,           \* position of the conversion
    err,          \* NoErr, or the exception that ended the conversion
    tiff_fp,      \* the libtiff handle: "unopened", "open" or "closed"
    idx,          \* index of the next tile writer (enumerate(get_tilewriters()))
    tiff_strip,   \* the strip buffer allocated once and reused (line 432)
    written,      \* the buffers handed to the destination, in order
    trace,        \* the I/O events of the conversion, in order
    tiff_file,    \* the bytes of the source file
    tfp,          \* the read handle of copy_metadata: [open, pos]
    b,            \* the BytesIO buffer of copy_metadata: [data, pos]
    ifd,          \* the locals of _process_header and _process_tags
    jp2_tail      \* the bytes appended to the destination file by copy_metadata

imgvars == <<idx, tiff_strip, written>>
metavars == <<tfp, b, ifd, jp2_tail>>
vars == <<tif, tilesize, pc, err, tiff_fp, idx, tiff_strip, written, trace,
          tiff_file, tfp, b, ifd, jp2_tail>>

NoErr == [type |-> "none", in |-> "none"]
Raised(type, in) == [type |-> type, in |-> in]

----------------------------------------------------------------------------
(* Bounds of the model *)

MaxDim == 5
MaxUnit == 3
MaxTile == 3
MaxTags == 2
RunMaxDim == 2
RunMaxTile == 2

----------------------------------------------------------------------------
(* Arithmetic and numpy helpers *)

Min(x, y) == IF x < y THEN x ELSE y
Max(x, y) == IF x > y THEN x ELSE y

\* int(np.ceil(x / y)) for positive integers
CeilDiv(x, y) == (x + y - 1) \div y

Zero == <<-1, -1>>
Pad == <<-2, -2>>

\* an I/O event: the operation, its argument (unit or tile index) and the index
\* of the destination tile being assembled when it happened (-1 outside the loops)
Event(op, arg, tile) == [op |-> op, arg |-> arg, tile |-> tile]

\* np.zeros((n, m, ch))
Zeros(n, m, ch) ==
    [rows |-> n, cols |-> m, ch |-> ch,
     px |-> [p \in (0 .. n - 1) \X (0 .. m - 1) |-> Zero]]

\* slice(start, stop)
Slice(start, stop) == [start |-> start, stop |-> stop]

\* first index and length of slice s applied to an axis of length n
SliceLo(s, n) == Min(s.start, n)
SliceLen(s, n) == Max(Min(s.stop, n) - Min(s.start, n), 0)

\* np.flipud(buf)
Flipud(buf) ==
    [buf EXCEPT !.px = [p \in DOMAIN buf.px |-> buf.px[<<buf.rows - 1 - p[1], p[2]>>]]]

\* buf[:, :, :n]
Channels(buf, n) == [buf EXCEPT !.ch = Min(buf.ch, n)]

\* buf[rs, :, :].copy()
CropRows(buf, rs) ==
    LET lo == SliceLo(rs, buf.rows)
        n == SliceLen(rs, buf.rows)
    IN [rows |-> n, cols |-> buf.cols, ch |-> buf.ch,
        px |-> [p \in (0 .. n - 1) \X (0 .. buf.cols - 1) |-> buf.px[<<lo + p[1], p[2]>>]]]

\* buf[:, cs, :].copy()
CropCols(buf, cs) ==
    LET lo == SliceLo(cs, buf.cols)
        m == SliceLen(cs, buf.cols)
    IN [rows |-> buf.rows, cols |-> m, ch |-> buf.ch,
        px |-> [p \in (0 .. buf.rows - 1) \X (0 .. m - 1) |-> buf.px[<<p[1], lo + p[2]>>]]]

\* dst[drows, dcols, :] = src[srows, scols, :] with numpy's broadcasting rule:
\* ok is FALSE where numpy raises ValueError
AssignSlice(dst, drows, dcols, src, srows, scols) ==
    LET dr == SliceLen(drows, dst.rows)
        dc == SliceLen(dcols, dst.cols)
        sr == SliceLen(srows, src.rows)
        sc == SliceLen(scols, src.cols)
        d0 == SliceLo(drows, dst.rows)
        e0 == SliceLo(dcols, dst.cols)
        s0 == SliceLo(srows, src.rows)
        u0 == SliceLo(scols, src.cols)
        ok == /\ (sr = dr \/ sr = 1)
              /\ (sc = dc \/ sc = 1)
              /\ (src.ch = dst.ch \/ src.ch = 1)
    IN [ok |-> ok,
        buf |-> IF ~ok THEN dst
                ELSE [dst EXCEPT !.px =
                        [p \in DOMAIN dst.px |->
                            IF /\ p[1] >= d0 /\ p[1] < d0 + dr
                               /\ p[2] >= e0 /\ p[2] < e0 + dc
                            THEN src.px[<<s0 + (IF sr = 1 THEN 0 ELSE p[1] - d0),
                                          u0 + (IF sc = 1 THEN 0 ELSE p[2] - e0)>>]
                            ELSE dst.px[p]]]]

----------------------------------------------------------------------------
(* The source raster reader (glymur.lib.tiff) *)

\* the sample stored at image position (r, c); Pad beyond the image
SourceSample(t, r, c) ==
    IF r < t.imageheight /\ c < t.imagewidth THEN <<r, c>> ELSE Pad

\* libtiff.computeTile(fp, x, y, 0, 0)
computeTile(t, x, y) == CeilDiv(t.imagewidth, t.tw) * (y \div t.th) + (x \div t.tw)

\* libtiff.computeStrip(fp, row, 0)
computeStrip(t, row) == row \div t.rps

\* libtiff.numberOfStrips(fp)
numberOfStrips(t) == CeilDiv(t.imageheight, t.rps)

\* libtiff.readEncodedTile(fp, tilenum, tile): a whole tile, padded beyond the image
readEncodedTile(t, tilenum) ==
    LET ntc == CeilDiv(t.imagewidth, t.tw)
        r0 == (tilenum \div ntc) * t.th
        c0 == (tilenum % ntc) * t.tw
    IN [rows |-> t.th, cols |-> t.tw, ch |-> t.spp,
        px |-> [p \in (0 .. t.th - 1) \X (0 .. t.tw - 1) |->
                    SourceSample(t, r0 + p[1], c0 + p[2])]]

\* libtiff.readRGBATile(fp, x, y, rgba_tile): the tile at (x, y), rows bottom to top
readRGBATile(t, x, y) ==
    [rows |-> t.th, cols |-> t.tw, ch |-> 4,
     px |-> [p \in (0 .. t.th - 1) \X (0 .. t.tw - 1) |->
                 SourceSample(t, y + (t.th - 1 - p[1]), x + p[2])]]

\* libtiff.readEncodedStrip(fp, stripnum, strip): the valid rows of the strip are
\* stored, the rest of the caller's buffer is left as it was
readEncodedStrip(t, stripnum, strip) ==
    LET r0 == stripnum * t.rps
        n == Min(t.rps, t.imageheight - r0)
    IN [strip EXCEPT !.px =
            [p \in DOMAIN strip.px |->
                IF p[1] < n THEN <<r0 + p[1], p[2]>> ELSE strip.px[p]]]

\* libtiff.readRGBAStrip(fp, row, rgba_strip): the strip starting at row, rows
\* bottom to top
readRGBAStrip(t, row) ==
    [rows |-> t.rps, cols |-> t.imagewidth, ch |-> 4,
     px |-> [p \in (0 .. t.rps - 1) \X (0 .. t.imagewidth - 1) |->
                 SourceSample(t, row + (t.rps - 1 - p[1]), p[2])]]

\* libtiff.readRGBAImageOriented(fp): the whole image, top to bottom
readRGBAImageOriented(t) ==
    [rows |-> t.imageheight, cols |-> t.imagewidth, ch |-> 4,
     px |-> [p \in (0 .. t.imageheight - 1) \X (0 .. t.imagewidth - 1) |-> p]]

\* the number of tile writers jp2.get_tilewriters() yields
NumTilewriters(t, ts) == CeilDiv(t.imageheight, ts[1]) * CeilDiv(t.imagewidth, ts[2])

----------------------------------------------------------------------------
(* copy_image: values computed before the strategy is chosen *)

jth(ts) == ts[1]
jtw(ts) == ts[2]

use_rgba_interface(t) == t.photometric \in {"YCBCR", "PALETTE"}

\* the column count taken from the image height
num_jp2k_tile_cols_from_height(t, ts) == CeilDiv(t.imageheight, jth(ts))

num_jp2k_tile_rows(t, ts) == CeilDiv(t.imagewidth, jtw(ts))
num_jp2k_tile_cols(t, ts) == CeilDiv(t.imagewidth, jtw(ts))

partial_jp2_tile_rows(t, ts) == (t.imageheight % jth(ts)) # 0
partial_jp2_tile_cols(t, ts) == (t.imagewidth % jtw(ts)) # 0

----------------------------------------------------------------------------
(* copy_image, tiled branch: one destination tile (lines 323-421) *)

num_tiff_tile_cols(t) == CeilDiv(t.imagewidth, t.tw)

jp2k_tile_row(t, ts, i) == i \div num_jp2k_tile_cols(t, ts)
jp2k_tile_col(t, ts, i) == i % num_jp2k_tile_cols(t, ts)

\* the local slice with the right extent but always starting at 0
LocalSlice_from_zero(lo, hi, size) == Slice(0, hi - lo)

\* the local slice without the "- 1 ... + 1" convention: a boundary falling on
\* a unit edge wraps to 0
LocalSlice_wrapping(lo, hi, size) == Slice(lo % size, hi % size)

\* slice(lo % size, (hi - 1) % size + 1): the image-space interval [lo, hi) in
\* the local coordinates of a unit of the given size
LocalSlice(lo, hi, size) == Slice(lo % size, ((hi - 1) % size) + 1)

\* the overlap of the TIFF tile tilenum with the jp2k tile at (julr, julc)
TiledOverlap(t, ts, julr, julc, tilenum) ==
    LET tulr == (tilenum \div num_tiff_tile_cols(t)) * t.th
        tulc == (tilenum % num_tiff_tile_cols(t)) * t.tw
        ulr == Max(julr, tulr)
        llr == Min(julr + jth(ts), tulr + t.th)
        ulc == Max(julc, tulc)
        urc == Min(julc + jtw(ts), tulc + t.tw)
    IN [unit |-> tilenum, tulr |-> tulr, tulc |-> tulc,
        ulr |-> ulr, llr |-> llr, ulc |-> ulc, urc |-> urc,
        jrows |-> LocalSlice(ulr, llr, jth(ts)),
        jcols |-> LocalSlice(ulc, urc, jtw(ts)),
        trows |-> LocalSlice(ulr, llr, t.th),
        tcols |-> LocalSlice(ulc, urc, t.tw)]

\* the tile read for one visit: raw, or RGBA flipped with the alpha plane dropped
TiledRead(t, v) ==
    IF use_rgba_interface(t)
    THEN Flipud(Channels(readRGBATile(t, v.tulc, v.tulr), 3))
    ELSE readEncodedTile(t, v.unit)

\* the loop test on the position itself, not on the start of its unit
loop_continues_unfloored(pos, size, lim) == pos < lim

\* the test of the while loops (lines 339, 354, 453): the unit holding
\* position pos starts before the limit
loop_continues(pos, size, lim) == (pos \div size) * size < lim

\* the inner while loop (lines 354-403), from column c of row r
RECURSIVE TiledColLoop(_, _, _, _, _, _, _)
TiledColLoop(t, ts, julr, julc, r, c, st) ==
    IF st.ex # "none" THEN st
    ELSE IF loop_continues(c, t.tw, Min(julc + jtw(ts), t.imagewidth))
    THEN LET v == TiledOverlap(t, ts, julr, julc, computeTile(t, c, r))
             a == AssignSlice(st.tile, v.jrows, v.jcols, TiledRead(t, v), v.trows, v.tcols)
         IN TiledColLoop(t, ts, julr, julc, r, c + t.tw,
                [ex |-> IF a.ok THEN "none" ELSE "ValueError",
                 tile |-> a.buf,
                 visits |-> Append(st.visits, v)])
    ELSE st

\* the outer while loop (lines 339-405), from row r
RECURSIVE TiledRowLoop(_, _, _, _, _, _)
TiledRowLoop(t, ts, julr, julc, r, st) ==
    IF st.ex # "none" THEN st
    ELSE IF loop_continues(r, t.th, Min(julr + jth(ts), t.imageheight))
    THEN TiledRowLoop(t, ts, julr, julc, r + t.th,
            TiledColLoop(t, ts, julr, julc, r, julc, st))
    ELSE st

\* the crop of a tile of the last column and of the last row (lines 407-419),
\* with the slices left by the last TIFF tile visited
TiledCrop(t, ts, i, tile, last) ==
    LET c1 == IF /\ partial_jp2_tile_cols(t, ts)
                 /\ jp2k_tile_col(t, ts, i) = num_jp2k_tile_cols(t, ts) - 1
              THEN CropCols(tile, last.jcols)
              ELSE tile
    IN IF /\ partial_jp2_tile_rows(t, ts)
          /\ jp2k_tile_row(t, ts, i) = num_jp2k_tile_rows(t, ts) - 1
       THEN CropRows(c1, last.jrows)
       ELSE c1

\* the body of the for loop for tile writer i: [ex, tile, visits]
TiledTileBody(t, ts, i) ==
    LET julr == jp2k_tile_row(t, ts, i) * jth(ts)
        julc == jp2k_tile_col(t, ts, i) * jtw(ts)
        st == TiledRowLoop(t, ts, julr, julc, julr,
                [ex |-> "none", tile |-> Zeros(jth(ts), jtw(ts), t.spp), visits |-> <<>>])
    IN IF st.ex # "none" THEN st
       ELSE IF st.visits = <<>> THEN [st EXCEPT !.ex = "NameError"]
       ELSE [st EXCEPT !.tile = TiledCrop(t, ts, i, st.tile, st.visits[Len(st.visits)])]

----------------------------------------------------------------------------
(* copy_image, strip branch: one destination tile (lines 435-525) *)

\* the overlap of the strip stripnum with the jp2k tile at (julr, julc)
StripOverlap(t, ts, julr, julc, stripnum) ==
    LET tulr == stripnum * t.rps
        tulc == 0
        ulr == Max(julr, tulr)
        llr == Min(julr + jth(ts), tulr + t.rps)
        ulc == Max(julc, tulc)
        urc == Min(julc + jtw(ts), tulc + t.imagewidth)
    IN [unit |-> stripnum, tulr |-> tulr, tulc |-> tulc,
        ulr |-> ulr, llr |-> llr, ulc |-> ulc, urc |-> urc,
        jrows |-> LocalSlice(ulr, llr, jth(ts)),
        jcols |-> LocalSlice(ulc, urc, jtw(ts)),
        trows |-> LocalSlice(ulr, llr, t.rps),
        tcols |-> LocalSlice(ulc, urc, t.imagewidth)]

\* the strip buffer after the read of one visit (lines 462-475)
StripRead(t, stripnum, strip) ==
    IF use_rgba_interface(t)
    THEN Flipud(Channels(readRGBAStrip(t, stripnum * t.rps), t.spp))
    ELSE readEncodedStrip(t, stripnum, strip)

\* the while loop (lines 453-502), from row r
RECURSIVE StripLoop(_, _, _, _, _, _)
StripLoop(t, ts, julr, julc, r, st) ==
    IF st.ex # "none" THEN st
    ELSE IF loop_continues(r, t.rps, Min(julr + jth(ts), t.imageheight))
    THEN LET stripnum == computeStrip(t, r)
         IN IF stripnum >= numberOfStrips(t)
            THEN [st EXCEPT !.stripnum = stripnum]
            ELSE LET strip == StripRead(t, stripnum, st.strip)
                     v == StripOverlap(t, ts, julr, julc, stripnum)
                     a == AssignSlice(st.tile, v.jrows, v.jcols, strip, v.trows, v.tcols)
                 IN StripLoop(t, ts, julr, julc, r + t.rps,
                        [ex |-> IF a.ok THEN "none" ELSE "ValueError",
                         tile |-> a.buf,
                         strip |-> strip,
                         stripnum |-> stripnum,
                         visits |-> Append(st.visits, v)])
    ELSE st

\* slice(0, jtw - (ulc + jtw - imagewidth)) (line 513)
last_j2k_cols(t, ts, ulc) == Slice(0, jtw(ts) - (ulc + jtw(ts) - t.imagewidth))

\* the row crop taken from the image height alone
last_j2k_rows_uncropped(t, julr) == Slice(0, t.imageheight)

\* slice(0, imageheight - julr) (line 522)
last_j2k_rows(t, julr) == Slice(0, t.imageheight - julr)

\* the crop of a tile of the last column and of a tile whose last strip is the
\* last strip of the image (lines 507-523)
StripCrop(t, ts, i, tile, julr, ulc, stripnum) ==
    LET c1 == IF /\ partial_jp2_tile_cols(t, ts)
                 /\ jp2k_tile_col(t, ts, i) = num_jp2k_tile_cols(t, ts) - 1
              THEN CropCols(tile, last_j2k_cols(t, ts, ulc))
              ELSE tile
    IN IF /\ partial_jp2_tile_rows(t, ts)
          /\ stripnum = numberOfStrips(t) - 1
       THEN CropRows(c1, last_j2k_rows(t, julr))
       ELSE c1

\* the body of the for loop for tile writer i: [ex, tile, strip, stripnum, visits]
StripTileBody(t, ts, i, strip0) ==
    LET julr == jp2k_tile_row(t, ts, i) * jth(ts)
        julc == jp2k_tile_col(t, ts, i) * jtw(ts)
        st == StripLoop(t, ts, julr, julc, julr,
                [ex |-> "none", tile |-> Zeros(jth(ts), jtw(ts), t.spp),
                 strip |-> strip0, stripnum |-> -1, visits |-> <<>>])
    IN IF st.ex # "none" THEN st
       ELSE IF st.visits = <<>> THEN [st EXCEPT !.ex = "NameError"]
       ELSE [st EXCEPT !.tile =
                StripCrop(t, ts, i, st.tile, julr,
                          st.visits[Len(st.visits)].ulc, st.stripnum)]

----------------------------------------------------------------------------
(* run() and copy_image as steps of the conversion *)

\* run() with its two calls exchanged
run_seq_metadata_first == <<"copy_metadata", "copy_image">>

\* the calls run() makes, in order (lines 75-76)
run_seq == <<"copy_image", "copy_metadata">>

\* where run() goes when the call named stage returns
RunNext(stage) ==
    LET i == CHOOSE k \in 1 .. Len(run_seq) : run_seq[k] = stage
    IN IF i < Len(run_seq) THEN run_seq[i + 1] ELSE "returned"

\* the validation with 32 bits per sample let through
FormatCheck_accepts_32(t) ==
    IF t.sf # "UINT" THEN "RuntimeError"
    ELSE IF t.bps \notin {8, 16, 32} THEN "RuntimeError"
    ELSE "none"

\* the pre-flight validation (lines 241-257): the exception raised, or "none"
FormatCheck(t) ==
    IF t.sf # "UINT" THEN "RuntimeError"
    ELSE IF t.bps \notin {8, 16} THEN "RuntimeError"
    ELSE "none"

\* the branch of the if/elif chain taken (lines 294, 311, 423); "none" when no
\* branch is taken
Strategy(t, ts) ==
    IF ts = <<>> /\ t.rgba_ok THEN "rgba_image"
    ELSE IF t.isTiled /\ ts # <<>> THEN "tiled"
    ELSE IF ~t.isTiled /\ ts # <<>> THEN "strip"
    ELSE "none"

\* the read events of the visits of destination tile i
ReadEvents(op, visits, i) == [k \in 1 .. Len(visits) |-> Event(op, visits[k].unit, i)]

\* lines 229-257: the fields are read and the format is validated
CopyImageValidate ==
    /\ pc = "copy_image"
    /\ IF FormatCheck(tif) # "none"
       THEN /\ pc' = "raised"
            /\ err' = Raised(FormatCheck(tif), "copy_image")
       ELSE /\ pc' = "strategy"
            /\ err' = err
    /\ UNCHANGED <<tif, tilesize, tiff_fp, imgvars, trace, tiff_file, metavars>>

\* lines 259-311, 423-433: the destination is created and the strategy chosen
CopyImageStrategy ==
    /\ pc = "strategy"
    /\ trace' = Append(trace, Event("Jp2k", 0, -1))
    /\ LET s == Strategy(tif, tilesize)
       IN /\ pc' = IF s = "none" THEN RunNext("copy_image") ELSE s
          /\ tiff_strip' = IF s = "strip"
                           THEN Zeros(tif.rps, tif.imagewidth, tif.spp)
                           ELSE tiff_strip
    /\ idx' = 0
    /\ UNCHANGED <<tif, tilesize, err, tiff_fp, written, tiff_file, metavars>>

\* the whole image with the alpha plane kept whatever spp is
rgba_image_with_alpha(t, image) == image

\* lines 306-307: the alpha plane is dropped when spp < 4
rgba_image_out(t, image) == IF t.spp < 4 THEN Channels(image, 3) ELSE image

\* lines 304-309: the whole image through the RGBA interface, one write
RGBAImage ==
    /\ pc = "rgba_image"
    /\ LET image == readRGBAImageOriented(tif)
           out == rgba_image_out(tif, image)
       IN /\ written' = Append(written, [row |-> 0, col |-> 0, buf |-> out])
          /\ trace' = trace \o <<Event("readRGBAImageOriented", 0, -1),
                                 Event("write", 0, -1)>>
    /\ pc' = RunNext("copy_image")
    /\ UNCHANGED <<tif, tilesize, err, tiff_fp, idx, tiff_strip, tiff_file, metavars>>

\* one iteration of the for loop of the tiled branch (lines 323-421)
TiledTile ==
    /\ pc = "tiled"
    /\ idx < NumTilewriters(tif, tilesize)
    /\ LET res == TiledTileBody(tif, tilesize, idx)
           reads == ReadEvents(IF use_rgba_interface(tif) THEN "readRGBATile"
                               ELSE "readEncodedTile", res.visits, idx)
       IN IF res.ex # "none"
          THEN /\ pc' = "raised"
               /\ err' = Raised(res.ex, "copy_image")
               /\ trace' = trace \o reads
               /\ UNCHANGED <<idx, written>>
          ELSE /\ written' = Append(written,
                                 [row |-> jp2k_tile_row(tif, tilesize, idx),
                                  col |-> jp2k_tile_col(tif, tilesize, idx),
                                  buf |-> res.tile])
               /\ trace' = (trace \o reads) \o <<Event("write", idx, idx)>>
               /\ idx' = idx + 1
               /\ pc' = IF idx + 1 = NumTilewriters(tif, tilesize)
                        THEN RunNext("copy_image") ELSE "tiled"
               /\ err' = err
    /\ UNCHANGED <<tif, tilesize, tiff_fp, tiff_strip, tiff_file, metavars>>

\* one iteration of the for loop of the strip branch (lines 435-525)
StripTile ==
    /\ pc = "strip"
    /\ idx < NumTilewriters(tif, tilesize)
    /\ LET res == StripTileBody(tif, tilesize, idx, tiff_strip)
           reads == ReadEvents(IF use_rgba_interface(tif) THEN "readRGBAStrip"
                               ELSE "readEncodedStrip", res.visits, idx)
       IN /\ tiff_strip' = res.strip
          /\ IF res.ex # "none"
             THEN /\ pc' = "raised"
                  /\ err' = Raised(res.ex, "copy_image")
                  /\ trace' = trace \o reads
                  /\ UNCHANGED <<idx, written>>
             ELSE /\ written' = Append(written,
                                    [row |-> jp2k_tile_row(tif, tilesize, idx),
                                     col |-> jp2k_tile_col(tif, tilesize, idx),
                                     buf |-> res.tile])
                  /\ trace' = (trace \o reads) \o <<Event("write", idx, idx)>>
                  /\ idx' = idx + 1
                  /\ pc' = IF idx + 1 = NumTilewriters(tif, tilesize)
                           THEN RunNext("copy_image") ELSE "strip"
                  /\ err' = err
    /\ UNCHANGED <<tif, tilesize, tiff_fp, tiff_file, metavars>>

----------------------------------------------------------------------------
(* The remapper alone: every source geometry and requested tile size within
   the bounds, from the call of copy_image on *)

\* the photometric interpretations and samples per pixel of the sources
Photometrics ==
    {<<"MINISBLACK", 1>>, <<"RGB", 4>>, <<"YCBCR", 3>>, <<"PALETTE", 1>>}

Source(tiled, ph, w, h, utw, uth, urps, sf, bps, rgba) ==
    [exists |-> TRUE, isTiled |-> tiled, photometric |-> ph[1], spp |-> ph[2],
     imagewidth |-> w, imageheight |-> h,
     tw |-> IF tiled THEN utw ELSE w, th |-> IF tiled THEN uth ELSE 1,
     rps |-> IF tiled THEN 1 ELSE urps,
     sf |-> sf, bps |-> bps, rgba_ok |-> rgba]

ImageSources ==
    {Source(TRUE, ph, w, h, utw, uth, 1, "UINT", 8, TRUE) :
        ph \in Photometrics \ {<<"RGB", 4>>}, w \in 1 .. MaxDim, h \in 1 .. MaxDim,
        utw \in 1 .. MaxUnit, uth \in 1 .. MaxUnit}
    \cup
    {Source(FALSE, ph, w, h, 1, 1, urps, "UINT", 8, TRUE) :
        ph \in Photometrics \ {<<"RGB", 4>>}, w \in 1 .. MaxDim, h \in 1 .. MaxDim,
        urps \in 1 .. MaxUnit}

NoIfd == [endian |-> "", num_tags |-> 0, buffer |-> <<>>,
          start_of_tags_position |-> 0, after_ifd_position |-> 0, idx |-> 0]

MetaInit ==
    /\ tfp = [open |-> FALSE, pos |-> 0]
    /\ b = [data |-> <<>>, pos |-> 0]
    /\ ifd = NoIfd
    /\ jp2_tail = <<>>

InitImage ==
    /\ tif \in ImageSources
    /\ tilesize \in (1 .. MaxTile) \X (1 .. MaxTile)
    /\ pc = "copy_image"
    /\ err = NoErr
    /\ tiff_fp = "open"
    /\ idx = 0
    /\ tiff_strip = Zeros(0, 0, 0)
    /\ written = <<>>
    /\ trace = <<>>
    /\ tiff_file = <<>>
    /\ MetaInit

NextImage ==
    \/ CopyImageValidate
    \/ CopyImageStrategy
    \/ TiledTile
    \/ StripTile

SpecImage == InitImage /\ [][NextImage]_vars

----------------------------------------------------------------------------
(* Properties of the remapper *)

\* the destination grid of the requested tile size
gridCols == CeilDiv(tif.imagewidth, tilesize[2])
gridRows == CeilDiv(tif.imageheight, tilesize[1])

\* copy_image has returned
ImageDone ==
    \/ pc \in {"copy_metadata", "process_tags", "process_tag", "write_uuid", "returned"}
    \/ pc = "raised" /\ err.in = "copy_metadata"

\* the k-th buffer handed to the writer is the clipped box of its grid position,
\* sample for sample
ExactTile(k) ==
    LET tr == (k - 1) \div gridCols
        tc == (k - 1) % gridCols
        nr == Min(tilesize[1], tif.imageheight - tr * tilesize[1])
        nc == Min(tilesize[2], tif.imagewidth - tc * tilesize[2])
        buf == written[k].buf
    IN /\ buf.rows = nr
       /\ buf.cols = nc
       /\ \A i \in 0 .. nr - 1 : \A j \in 0 .. nc - 1 :
            buf.px[<<i, j>>] = <<tr * tilesize[1] + i, tc * tilesize[2] + j>>

\* C2: tiled source and requested tile size: every buffer handed to the writer
\* has the clipped size of its grid position and holds the source samples of
\* that box.
C2_TiledTileExact ==
    (tilesize # <<>> /\ tif.isTiled) =>
        \A k \in 1 .. Len(written) : ExactTile(k)

\* C3: striped source and requested tile size: copy_image does not raise, and
\* every buffer handed to the writer has the clipped size of its grid position
\* and holds the source samples of that box.
C3_StripTileExact ==
    (tilesize # <<>> /\ ~tif.isTiled) =>
        /\ err = NoErr
        /\ \A k \in 1 .. Len(written) : ExactTile(k)

C3_Witness ==
    /\ ~tif.isTiled /\ tilesize # <<>>
    /\ (tif.imagewidth % tilesize[2]) # 0
    /\ (tif.imageheight % tilesize[1]) # 0
    /\ (tif.imageheight % tif.rps) # 0
    /\ ImageDone
    /\ Len(written) = gridRows * gridCols
    /\ gridRows > 1 /\ gridCols > 1
    /\ written[Len(written)].buf.rows < tilesize[1]
    /\ written[Len(written)].buf.cols < tilesize[2]

\* the source units and the requested tile size divide the image evenly
EvenlyDivisible ==
    /\ tilesize # <<>>
    /\ (tif.imagewidth % tilesize[2]) = 0
    /\ (tif.imageheight % tilesize[1]) = 0
    /\ IF tif.isTiled
       THEN (tif.imagewidth % tif.tw) = 0 /\ (tif.imageheight % tif.th) = 0
       ELSE (tif.imageheight % tif.rps) = 0

\* C4: evenly divisible retiling: copy_image does not raise, every destination
\* tile reproduces its box of the source, and ceil(W/jtw) * ceil(H/jth) tiles
\* have been handed to the writer when copy_image returns.
C4_EvenRetiling ==
    EvenlyDivisible =>
        /\ err = NoErr
        /\ \A k \in 1 .. Len(written) : ExactTile(k)
        /\ ImageDone => Len(written) = gridRows * gridCols

\* C5: short last strip under a tile height reaching past the image bottom:
\* every tile of the last destination row has exactly H - tr*jth rows, the other
\* tiles jth rows, and every row handed over is the image row of its position.
C5_ShortLastStrip ==
    (/\ tilesize # <<>> /\ ~tif.isTiled
     /\ (tif.imageheight % tif.rps) # 0
     /\ (tif.imageheight % tilesize[1]) # 0) =>
        \A k \in 1 .. Len(written) :
            LET tr == (k - 1) \div gridCols
                buf == written[k].buf
            IN /\ buf.rows = IF tr = gridRows - 1
                             THEN tif.imageheight - tr * tilesize[1]
                             ELSE tilesize[1]
               /\ \A p \in DOMAIN buf.px :
                    /\ buf.px[p][1] = tr * tilesize[1] + p[1]
                    /\ buf.px[p][1] < tif.imageheight

\* a short last strip was read into a buffer still holding rows of the strip
\* before it, and the last destination row was handed over cropped
C5_Witness ==
    /\ tilesize # <<>> /\ ~tif.isTiled /\ ~use_rgba_interface(tif)
    /\ (tif.imageheight % tif.rps) # 0
    /\ (tif.imageheight % tilesize[1]) # 0
    /\ ImageDone /\ err = NoErr
    /\ numberOfStrips(tif) > 1
    /\ Len(written) = gridRows * gridCols
    /\ written[Len(written)].buf.rows < tilesize[1]
    /\ \E p \in DOMAIN tiff_strip.px :
        /\ p[1] >= tif.imageheight % tif.rps
        /\ tiff_strip.px[p] # Zero
        /\ tiff_strip.px[p][1] < tif.imageheight - (tif.imageheight % tif.rps)

\* C8: the k-th buffer handed to the writer is the one assembled for grid
\* position (k div gridCols, k mod gridCols); every grid position has been
\* written once when copy_image returns; and every source read made for a tile
\* precedes the write of that tile and follows the write of the tile before it
\* (the tile index of the events never decreases, and increases after a write).
C8_HandOffOrder ==
    (tilesize # <<>>) =>
        /\ \A k \in 1 .. Len(written) :
            /\ written[k].row = (k - 1) \div gridCols
            /\ written[k].col = (k - 1) % gridCols
            /\ written[k].row < gridRows
        /\ (ImageDone /\ err = NoErr) => Len(written) = gridRows * gridCols
        /\ \A i \in 1 .. Len(trace) - 1 :
            (trace[i].tile >= 0) =>
                /\ trace[i].tile <= trace[i + 1].tile
                /\ trace[i].op = "write" => trace[i].tile < trace[i + 1].tile

C8_Witness ==
    /\ tilesize # <<>>
    /\ ImageDone /\ err = NoErr
    /\ gridRows > 1 /\ gridCols > 1 /\ gridRows # gridCols
    /\ Len(written) = gridRows * gridCols
    /\ \E i \in 1 .. Len(trace) : \E j \in 1 .. Len(trace) :
        /\ i < j /\ trace[i].tile = trace[j].tile
        /\ trace[i].op # "write" /\ trace[j].op # "write"

\* C21: destination grid: once a tile size is requested and the grid computed,
\* the remapper's column count is ceil(width / jtw) and its row count is
\* ceil(height / jth), and a buffer is handed over with fewer rows (columns)
\* than the tile size only for a tile of the last grid row (column).
C21_DestinationGrid ==
    (tilesize # <<>> /\ pc \notin {"copy_image", "strategy"}) =>
        /\ num_jp2k_tile_cols(tif, tilesize) = gridCols
        /\ num_jp2k_tile_rows(tif, tilesize) = gridRows
        /\ \A k \in 1 .. Len(written) :
            /\ (written[k].buf.rows # jth(tilesize)) => written[k].row = gridRows - 1
            /\ (written[k].buf.cols # jtw(tilesize)) => written[k].col = gridCols - 1

\* the number of source units: tiles of the TIFF grid, or strips
UnitCount ==
    IF tif.isTiled
    THEN num_tiff_tile_cols(tif) * CeilDiv(tif.imageheight, tif.th)
    ELSE CeilDiv(tif.imageheight, tif.rps)

\* the image-space box [r0, r1) x [c0, c1) of source unit u
UnitBox(u) ==
    IF tif.isTiled
    THEN LET r0 == (u \div num_tiff_tile_cols(tif)) * tif.th
             c0 == (u % num_tiff_tile_cols(tif)) * tif.tw
         IN [r0 |-> r0, r1 |-> Min(r0 + tif.th, tif.imageheight),
             c0 |-> c0, c1 |-> Min(c0 + tif.tw, tif.imagewidth)]
    ELSE [r0 |-> u * tif.rps, r1 |-> Min((u + 1) * tif.rps, tif.imageheight),
          c0 |-> 0, c1 |-> tif.imagewidth]

\* the box of destination tile i, clipped to the image
TileBox(i) ==
    LET r0 == (i \div gridCols) * tilesize[1]
        c0 == (i % gridCols) * tilesize[2]
    IN [r0 |-> r0, r1 |-> Min(r0 + tilesize[1], tif.imageheight),
        c0 |-> c0, c1 |-> Min(c0 + tilesize[2], tif.imagewidth)]

\* the source units whose box intersects the box of destination tile i
IntersectingUnits(i) ==
    {u \in 0 .. UnitCount - 1 :
        /\ UnitBox(u).r0 < TileBox(i).r1 /\ TileBox(i).r0 < UnitBox(u).r1
        /\ UnitBox(u).c0 < TileBox(i).c1 /\ TileBox(i).c0 < UnitBox(u).c1}

\* the units read for destination tile i, in the order of the reads
ReadsOf(i) ==
    LET ForTile(e) == /\ e.tile = i
                      /\ e.op \in {"readEncodedTile", "readRGBATile",
                                   "readEncodedStrip", "readRGBAStrip"}
        sel == SelectSeq(trace, ForTile)
    IN [k \in 1 .. Len(sel) |-> sel[k].arg]

\* copy_image is over: it has returned, or it has raised
ImageEnded == ImageDone \/ (pc = "raised" /\ err.in = "copy_image")

\* C22: source-unit enumeration: when copy_image is over, the units read for a
\* destination tile are units of the source's grid that intersect the tile's
\* clipped box, read in strictly increasing (row-major) order, so each at most
\* once, starting with the unit that covers the tile's top-left pixel; and for
\* a tile that has been handed over every intersecting unit has been read.
C22_UnitEnumeration ==
    (tilesize # <<>> /\ ImageEnded) =>
        \A i \in 0 .. gridRows * gridCols - 1 :
            LET reads == ReadsOf(i)
            IN /\ \A k \in 1 .. Len(reads) : reads[k] \in IntersectingUnits(i)
               /\ \A k \in 1 .. Len(reads) - 1 : reads[k] < reads[k + 1]
               /\ (reads # <<>>) =>
                    /\ UnitBox(reads[1]).r0 <= TileBox(i).r0
                    /\ TileBox(i).r0 < UnitBox(reads[1]).r1
                    /\ UnitBox(reads[1]).c0 <= TileBox(i).c0
                    /\ TileBox(i).c0 < UnitBox(reads[1]).c1
               /\ (i < Len(written)) =>
                    {reads[k] : k \in 1 .. Len(reads)} = IntersectingUnits(i)

\* every tile of a grid of several tiles has been written, from a tiled source
\* where some destination tile needed several source tiles of several rows and
\* columns
C22_Witness ==
    /\ tilesize # <<>> /\ tif.isTiled
    /\ ImageDone /\ err = NoErr
    /\ Len(written) = gridRows * gridCols
    /\ gridRows * gridCols > 1
    /\ \E i \in 0 .. gridRows * gridCols - 1 :
        /\ Len(ReadsOf(i)) >= 4
        /\ Len(ReadsOf(i)) = Cardinality(IntersectingUnits(i))
        /\ \E u \in IntersectingUnits(i) : UnitBox(u).r0 > UnitBox(ReadsOf(i)[1]).r0
        /\ \E u \in IntersectingUnits(i) : UnitBox(u).c0 > UnitBox(ReadsOf(i)[1]).c0

\* the overlap computed when source unit u is visited for destination tile i
VisitOf(i, u) ==
    LET julr == jp2k_tile_row(tif, tilesize, i) * jth(tilesize)
        julc == jp2k_tile_col(tif, tilesize, i) * jtw(tilesize)
    IN IF tif.isTiled
       THEN TiledOverlap(tif, tilesize, julr, julc, u)
       ELSE StripOverlap(tif, tilesize, julr, julc, u)

\* slice s has n elements and lies inside an axis of length size
SliceFits(s, n, size) == 0 <= s.start /\ s.stop - s.start = n /\ s.stop <= size

\* the destination-local regions of two visits share no element
DisjointRegions(v, w) ==
    \/ v.jrows.stop <= w.jrows.start \/ w.jrows.stop <= v.jrows.start
    \/ v.jcols.stop <= w.jcols.start \/ w.jcols.stop <= v.jcols.start

\* C23: overlap copy well-formedness: when copy_image is over, for every source
\* unit it read for a destination tile the overlap is non-empty, the
\* destination-local and the source-local slices both have llr - ulr rows and
\* urc - ulc columns and lie inside the destination tile buffer and the source
\* unit buffer, and the destination-local regions of two different units of one
\* tile are disjoint.
C23_OverlapWellFormed ==
    (tilesize # <<>> /\ ImageEnded) =>
        \A i \in 0 .. gridRows * gridCols - 1 :
            LET reads == ReadsOf(i)
                uh == IF tif.isTiled THEN tif.th ELSE tif.rps
                uw == IF tif.isTiled THEN tif.tw ELSE tif.imagewidth
            IN \A k \in 1 .. Len(reads) :
                LET v == VisitOf(i, reads[k])
                IN /\ v.ulr < v.llr /\ v.ulc < v.urc
                   /\ SliceFits(v.jrows, v.llr - v.ulr, jth(tilesize))
                   /\ SliceFits(v.jcols, v.urc - v.ulc, jtw(tilesize))
                   /\ SliceFits(v.trows, v.llr - v.ulr, uh)
                   /\ SliceFits(v.tcols, v.urc - v.ulc, uw)
                   /\ \A l \in 1 .. Len(reads) :
                        (l # k) => DisjointRegions(v, VisitOf(i, reads[l]))

\* a destination tile assembled from at least four source tiles, one of whose
\* overlaps ends exactly on the edge of the destination tile and of the source
\* tile, in a conversion that wrote the whole grid
C23_Witness ==
    /\ tilesize # <<>> /\ tif.isTiled
    /\ ImageDone /\ err = NoErr
    /\ Len(written) = gridRows * gridCols
    /\ \E i \in 0 .. gridRows * gridCols - 1 :
        /\ Len(ReadsOf(i)) >= 4
        /\ \E k \in 1 .. Len(ReadsOf(i)) :
            LET v == VisitOf(i, ReadsOf(i)[k])
            IN /\ v.llr % jth(tilesize) = 0 /\ v.llr % tif.th = 0
               /\ v.ulr % jth(tilesize) # 0
               /\ v.urc - v.ulc < tif.tw

----------------------------------------------------------------------------
(* Bytes, struct and file helpers of the directory transcoder.  A byte is a
   number in 0..255; a struct format is a sequence of format characters.  The
   IEEE formats f and d stand for their bit patterns. *)

\* the type table (lines 16-31)
tag_dtype ==
    (1 :> [format |-> <<"B">>, nbytes |-> 1]) @@
    (2 :> [format |-> <<"B">>, nbytes |-> 1]) @@
    (3 :> [format |-> <<"H">>, nbytes |-> 2]) @@
    (4 :> [format |-> <<"I">>, nbytes |-> 4]) @@
    (5 :> [format |-> <<"I", "I">>, nbytes |-> 8]) @@
    (7 :> [format |-> <<"B">>, nbytes |-> 1]) @@
    (9 :> [format |-> <<"i">>, nbytes |-> 4]) @@
    (10 :> [format |-> <<"i", "i">>, nbytes |-> 8]) @@
    (11 :> [format |-> <<"f">>, nbytes |-> 4]) @@
    (12 :> [format |-> <<"d">>, nbytes |-> 8]) @@
    (13 :> [format |-> <<"I">>, nbytes |-> 4]) @@
    (16 :> [format |-> <<"Q">>, nbytes |-> 8]) @@
    (17 :> [format |-> <<"q">>, nbytes |-> 8]) @@
    (18 :> [format |-> <<"Q">>, nbytes |-> 8])

\* struct: the standard size of a format character
FormatWidth(ch) ==
    CASE ch = "B" -> 1
      [] ch = "H" -> 2
      [] ch \in {"I", "i", "f"} -> 4
      [] ch \in {"Q", "q", "d"} -> 8

FormatSigned(ch) == ch \in {"i", "q"}

RECURSIVE CalcSize(_)
CalcSize(fmt) == IF fmt = <<>> THEN 0 ELSE FormatWidth(Head(fmt)) + CalcSize(Tail(fmt))

\* format * n
RECURSIVE Repeat(_, _)
Repeat(fmt, n) == IF n <= 0 THEN <<>> ELSE fmt \o Repeat(fmt, n - 1)

Reverse(seq) == [k \in 1 .. Len(seq) |-> seq[Len(seq) + 1 - k]]

\* seq[lo:hi] of Python, for 0 <= lo
PySlice(seq, lo, hi) == SubSeq(seq, Min(lo, Len(seq)) + 1, Min(hi, Len(seq)))

\* the number whose digits base 256 are bs, most significant first
RECURSIVE Horner(_, _)
Horner(bs, acc) == IF bs = <<>> THEN acc ELSE Horner(Tail(bs), acc * 256 + Head(bs))

\* the w bytes of the non-negative number u, least significant first
RECURSIVE LEBytes(_, _)
LEBytes(u, w) == IF w = 0 THEN <<>> ELSE <<u % 256>> \o LEBytes(u \div 256, w - 1)

\* one element decoded from its bytes in the given byte order
DecodeElem(endian, ch, bytes) ==
    LET be == IF endian = ">" THEN bytes ELSE Reverse(bytes)
    IN IF FormatSigned(ch) /\ be[1] >= 128
       THEN -Horner([k \in 1 .. Len(be) |-> 255 - be[k]], 0) - 1
       ELSE Horner(be, 0)

\* one element encoded in the given byte order
EncodeElem(endian, ch, v) ==
    LET w == FormatWidth(ch)
        le == IF v >= 0 THEN LEBytes(v, w)
              ELSE [k \in 1 .. w |-> 255 - LEBytes(-v - 1, w)[k]]
    IN IF endian = ">" THEN Reverse(le) ELSE le

\* struct.pack range rule for one element
InRange(ch, v) ==
    CASE ch = "B" -> v >= 0 /\ v <= 255
      [] ch = "H" -> v >= 0 /\ v <= 65535
      [] ch \in {"I", "Q", "f", "d"} -> v >= 0
      [] OTHER -> TRUE

RECURSIVE UnpackElems(_, _, _)
UnpackElems(endian, fmt, buf) ==
    IF fmt = <<>> THEN <<>>
    ELSE LET w == FormatWidth(Head(fmt))
         IN <<DecodeElem(endian, Head(fmt), SubSeq(buf, 1, w))>>
            \o UnpackElems(endian, Tail(fmt), SubSeq(buf, w + 1, Len(buf)))

\* struct.unpack(endian + fmt, buf): [ok, vals]; ok is FALSE where struct.error
\* is raised (the buffer has not exactly the format's size)
Unpack(endian, fmt, buf) ==
    IF Len(buf) # CalcSize(fmt) THEN [ok |-> FALSE, vals |-> <<>>]
    ELSE [ok |-> TRUE, vals |-> UnpackElems(endian, fmt, buf)]

RECURSIVE PackElems(_, _, _)
PackElems(endian, fmt, vals) ==
    IF fmt = <<>> THEN <<>>
    ELSE EncodeElem(endian, Head(fmt), Head(vals)) \o PackElems(endian, Tail(fmt), Tail(vals))

\* struct.pack(endian + fmt, *vals): [ok, bytes]
Pack(endian, fmt, vals) ==
    IF Len(vals) # Len(fmt) \/ \E k \in 1 .. Len(fmt) : ~InRange(fmt[k], vals[k])
    THEN [ok |-> FALSE, bytes |-> <<>>]
    ELSE [ok |-> TRUE, bytes |-> PackElems(endian, fmt, vals)]

\* a read that gives n bytes whatever the file holds, zeros past its end
FileRead_zero_filled(file, pos, n) ==
    [k \in 1 .. n |-> IF pos + k <= Len(file) THEN file[pos + k] ELSE 0]

\* file.read(n) at position pos
FileRead(file, pos, n) == SubSeq(file, Min(pos, Len(file)) + 1, Min(pos + n, Len(file)))

\* BytesIO.write(bytes) at the buffer's position: a gap past the end is filled
\* with zero bytes
BytesIOWrite(bio, bytes) ==
    IF bytes = <<>> THEN bio
    ELSE LET n == Max(Len(bio.data), bio.pos + Len(bytes))
         IN [data |-> [k \in 1 .. n |->
                        IF k > bio.pos /\ k <= bio.pos + Len(bytes) THEN bytes[k - bio.pos]
                        ELSE IF k <= Len(bio.data) THEN bio.data[k]
                        ELSE 0],
             pos |-> bio.pos + Len(bytes)]

\* a seek that leaves the position where it is
BytesIOSeek_ignored(bio, pos) == bio

\* BytesIO.seek(pos)
BytesIOSeek(bio, pos) == [bio EXCEPT !.pos = pos]

----------------------------------------------------------------------------
(* copy_metadata: _process_header and _process_tags *)

EmptyBytesIO == [data |-> <<>>, pos |-> 0]

\* a header stamped with the big-endian marker
header_out_big_endian == <<77, 77, 42, 8>>

\* the fields of the header written to the buffer (line 222)
header_out == <<73, 73, 42, 8>>

\* _process_header (lines 196-225) on the file just opened:
\* [ex, endian, pos, bio], pos the position of tfp and bio the buffer b after it
process_header(file) ==
    LET buffer == FileRead(file, 0, 8)
        data == Unpack("=", <<"B", "B">>, PySlice(buffer, 0, 2))
        fail(ex) == [ex |-> ex, endian |-> "", pos |-> Len(buffer), bio |-> EmptyBytesIO]
    IN IF ~data.ok THEN fail("struct.error")
       ELSE IF data.vals # <<73, 73>> /\ data.vals # <<77, 77>>
       THEN \* line 211 names read_buffer, which is not defined
            fail("NameError")
       ELSE LET endian == IF data.vals = <<73, 73>> THEN "<" ELSE ">"
                hv == Unpack(endian, <<"H", "I">>, PySlice(buffer, 2, 8))
            IN IF ~hv.ok THEN fail("struct.error")
               ELSE [ex |-> "none", endian |-> endian, pos |-> hv.vals[2],
                     bio |-> BytesIOWrite(EmptyBytesIO,
                                Pack("<", <<"B", "B", "H", "I">>, header_out).bytes)]

\* _process_tags up to the loop (lines 110-125): [ex, pos, bio, ifd]
process_tags_begin(file, pos, endian, bio) ==
    LET buffer == FileRead(file, pos, 2)
        nt == Unpack(endian, <<"H">>, buffer)
    IN IF ~nt.ok
       THEN [ex |-> "struct.error", pos |-> pos + Len(buffer), bio |-> bio,
             ifd |-> [endian |-> endian, num_tags |-> 0, buffer |-> <<>>,
                      start_of_tags_position |-> 0, after_ifd_position |-> 0, idx |-> 0]]
       ELSE LET num_tags == nt.vals[1]
                bio1 == BytesIOWrite(bio, Pack("<", <<"H">>, <<num_tags>>).bytes)
                table == FileRead(file, pos + 2, num_tags * 12)
            IN [ex |-> "none", pos |-> pos + 2 + Len(table), bio |-> bio1,
                ifd |-> [endian |-> endian, num_tags |-> num_tags, buffer |-> table,
                         start_of_tags_position |-> bio1.pos,
                         after_ifd_position |-> bio1.pos + Len(table),
                         idx |-> 0]]

\* the out-of-line branch of the loop body (lines 139-167)
process_tag_offset(file, d, bio0, tag_data, tag, dtype, nvalues) ==
    LET fail(ex) == [ex |-> ex, bio |-> bio0, after_ifd_position |-> d.after_ifd_position]
        payload_length == tag_dtype[dtype].nbytes * nvalues
        off == Unpack(d.endian, <<"I">>, PySlice(tag_data, 8, 12))
    IN IF ~off.ok THEN fail("struct.error")
       ELSE LET payload_buffer == FileRead(file, off.vals[1], payload_length)
                payload_format == Repeat(tag_dtype[dtype].format, nvalues)
                payload == Unpack(d.endian, payload_format, payload_buffer)
            IN IF ~payload.ok THEN fail("struct.error")
               ELSE LET new_offset == d.after_ifd_position
                        bio1 == BytesIOWrite(bio0,
                                    Pack("<", <<"H", "H", "I", "I">>,
                                         <<tag, dtype, nvalues, new_offset>>).bytes)
                        cpos == bio1.pos
                        bio2 == BytesIOWrite(BytesIOSeek(bio1, new_offset),
                                    Pack("<", payload_format, payload.vals).bytes)
                    IN [ex |-> "none", bio |-> BytesIOSeek(bio2, cpos),
                        after_ifd_position |-> bio2.pos]

\* the format the inline payload is written with (lines 189-191)
inline_out_format(payload_format) ==
    IF payload_format \in {<<"H">>, <<"B">>} THEN <<"I">> ELSE payload_format

\* the inline branch of the loop body (lines 169-194)
process_tag_inline(d, bio0, tag_data, tag, dtype, nvalues) ==
    LET fail(ex) == [ex |-> ex, bio |-> bio0, after_ifd_position |-> d.after_ifd_position]
        payload_length == tag_dtype[dtype].nbytes * nvalues
    IN IF payload_length = 1
       THEN \* tag_data[8] is an int, which struct.unpack refuses
            IF Len(tag_data) < 9 THEN fail("IndexError") ELSE fail("TypeError")
       ELSE LET payload_buffer == IF payload_length = 2
                                  THEN PySlice(tag_data, 8, 10)
                                  ELSE PySlice(tag_data, 8, 12)
                payload_format == Repeat(tag_dtype[dtype].format, nvalues)
                payload == Unpack(d.endian, payload_format, payload_buffer)
            IN IF ~payload.ok THEN fail("struct.error")
               ELSE LET bio1 == BytesIOWrite(bio0,
                                    Pack("<", <<"H", "H", "I">>, <<tag, dtype, nvalues>>).bytes)
                        out == Pack("<", inline_out_format(payload_format), payload.vals)
                    IN [ex |-> "none", bio |-> BytesIOWrite(bio1, out.bytes),
                        after_ifd_position |-> d.after_ifd_position]

\* the loop body for entry d.idx (lines 129-194): [ex, bio, after_ifd_position]
process_tag(file, d, bio) ==
    LET bio0 == BytesIOSeek(bio, d.start_of_tags_position + d.idx * 12)
        tag_data == PySlice(d.buffer, d.idx * 12, (d.idx + 1) * 12)
        hdr == Unpack(d.endian, <<"H", "H", "I">>, PySlice(tag_data, 0, 8))
        fail(ex) == [ex |-> ex, bio |-> bio0, after_ifd_position |-> d.after_ifd_position]
    IN IF ~hdr.ok THEN fail("struct.error")
       ELSE IF hdr.vals[2] \notin DOMAIN tag_dtype THEN fail("KeyError")
       ELSE IF tag_dtype[hdr.vals[2]].nbytes * hdr.vals[3] > 4
       THEN process_tag_offset(file, d, bio0, tag_data, hdr.vals[1], hdr.vals[2], hdr.vals[3])
       ELSE process_tag_inline(d, bio0, tag_data, hdr.vals[1], hdr.vals[2], hdr.vals[3])

RECURSIVE process_tags_loop(_, _, _)
\* the loop of _process_tags from entry d.idx on (lines 127-194): [ex, bio]
process_tags_loop(file, d, bio) ==
    IF d.idx >= d.num_tags THEN [ex |-> "none", bio |-> bio]
    ELSE LET r == process_tag(file, d, bio)
         IN IF r.ex # "none" THEN [ex |-> r.ex, bio |-> r.bio]
            ELSE process_tags_loop(file,
                     [d EXCEPT !.idx = d.idx + 1,
                               !.after_ifd_position = r.after_ifd_position],
                     r.bio)

\* lines 88-93 on a file: _process_header then _process_tags on a fresh buffer;
\* [ex, data], data the contents of the buffer
Transcode(file) ==
    LET h == process_header(file)
    IN IF h.ex # "none" THEN [ex |-> h.ex, data |-> h.bio.data]
       ELSE LET t == process_tags_begin(file, h.pos, h.endian, h.bio)
            IN IF t.ex # "none" THEN [ex |-> t.ex, data |-> t.bio.data]
               ELSE LET l == process_tags_loop(file, t.ifd, t.bio)
                    IN [ex |-> l.ex, data |-> l.bio.data]

\* b'EXIF\0\0' (line 98)
ExifIdentifier == <<69, 88, 73, 70, 0, 0>>

\* lines 84-92: the buffer is created, the source is opened and its header read
ProcessHeader ==
    /\ pc = "copy_metadata"
    /\ LET h == process_header(tiff_file)
       IN /\ b' = h.bio
          /\ ifd' = [NoIfd EXCEPT !.endian = h.endian]
          /\ IF h.ex # "none"
             THEN /\ pc' = "raised"
                  /\ err' = Raised(h.ex, "copy_metadata")
                  /\ tfp' = [open |-> FALSE, pos |-> h.pos]
                  /\ trace' = trace \o <<Event("open_rb", 0, -1), Event("close_rb", 0, -1)>>
             ELSE /\ pc' = "process_tags"
                  /\ err' = err
                  /\ tfp' = [open |-> TRUE, pos |-> h.pos]
                  /\ trace' = Append(trace, Event("open_rb", 0, -1))
    /\ UNCHANGED <<tif, tilesize, tiff_fp, imgvars, tiff_file, jp2_tail>>

\* line 93 up to the loop of _process_tags (lines 110-125)
ProcessTagsBegin ==
    /\ pc = "process_tags"
    /\ LET r == process_tags_begin(tiff_file, tfp.pos, ifd.endian, b)
       IN /\ b' = r.bio
          /\ ifd' = r.ifd
          /\ IF r.ex # "none"
             THEN /\ pc' = "raised"
                  /\ err' = Raised(r.ex, "copy_metadata")
                  /\ tfp' = [open |-> FALSE, pos |-> r.pos]
                  /\ trace' = Append(trace, Event("close_rb", 0, -1))
             ELSE IF r.ifd.num_tags = 0
             THEN /\ pc' = "write_uuid"
                  /\ err' = err
                  /\ tfp' = [open |-> FALSE, pos |-> r.pos]
                  /\ trace' = Append(trace, Event("close_rb", 0, -1))
             ELSE /\ pc' = "process_tag"
                  /\ err' = err
                  /\ tfp' = [open |-> TRUE, pos |-> r.pos]
                  /\ trace' = trace
    /\ UNCHANGED <<tif, tilesize, tiff_fp, imgvars, tiff_file, jp2_tail>>

\* one iteration of the loop of _process_tags (lines 127-194)
ProcessTag ==
    /\ pc = "process_tag"
    /\ ifd.idx < ifd.num_tags
    /\ LET r == process_tag(tiff_file, ifd, b)
       IN /\ b' = r.bio
          /\ IF r.ex # "none"
             THEN /\ pc' = "raised"
                  /\ err' = Raised(r.ex, "copy_metadata")
                  /\ ifd' = ifd
                  /\ tfp' = [tfp EXCEPT !.open = FALSE]
                  /\ trace' = Append(trace, Event("close_rb", 0, -1))
             ELSE /\ ifd' = [ifd EXCEPT !.idx = ifd.idx + 1,
                                        !.after_ifd_position = r.after_ifd_position]
                  /\ err' = err
                  /\ IF ifd.idx + 1 = ifd.num_tags
                     THEN /\ pc' = "write_uuid"
                          /\ tfp' = [tfp EXCEPT !.open = FALSE]
                          /\ trace' = Append(trace, Event("close_rb", 0, -1))
                     ELSE /\ pc' = "process_tag"
                          /\ tfp' = tfp
                          /\ trace' = trace
    /\ UNCHANGED <<tif, tilesize, tiff_fp, imgvars, tiff_file, jp2_tail>>

\* lines 95-106: the payload is built and the UUID box appended to the destination
WriteUUIDBox ==
    /\ pc = "write_uuid"
    /\ jp2_tail' = ExifIdentifier \o b.data
    /\ trace' = Append(trace, Event("uuid_write", Len(ExifIdentifier \o b.data), -1))
    /\ pc' = RunNext("copy_metadata")
    /\ UNCHANGED <<tif, tilesize, err, tiff_fp, imgvars, tiff_file, tfp, b, ifd>>

----------------------------------------------------------------------------
(* Source files of the transcoder: a directory of at most MaxTags entries, laid
   out as a TIFF file in either byte order, the directory before or after the
   out-of-line payloads *)

Entry(dtype, nvalues, vals) == [dtype |-> dtype, nvalues |-> nvalues, vals |-> vals]

\* the entries the directories are made of: one to four payload bytes inline,
\* payloads of six and eight bytes out of line, an empty payload and a type
\* code outside the table
EntryKinds ==
    {Entry(1, 1, <<7>>),
     Entry(3, 1, <<258>>),
     Entry(3, 2, <<258, 772>>),
     Entry(4, 1, <<66051>>),
     Entry(1, 3, <<1, 2, 3>>),
     Entry(2, 2, <<65, 66>>),
     Entry(3, 3, <<258, 3, 4>>),
     Entry(5, 1, <<258, 3>>),
     Entry(9, 1, <<-2>>),
     Entry(4, 0, <<>>),
     Entry(6, 1, <<>>)}

Directories == UNION {[1 .. n -> EntryKinds] : n \in 0 .. MaxTags}

\* the tag of the k-th entry
TagOf(k) == 255 + k

\* the payload bytes of an entry in the given byte order
PayloadBytes(endian, e) ==
    IF e.dtype \in DOMAIN tag_dtype
    THEN PackElems(endian, Repeat(tag_dtype[e.dtype].format, e.nvalues), e.vals)
    ELSE <<>>

RECURSIVE OutOfLineBytes(_, _, _)
\* the out-of-line payloads of the entries from the k-th on, concatenated
OutOfLineBytes(endian, entries, k) ==
    IF k > Len(entries) THEN <<>>
    ELSE (IF Len(PayloadBytes(endian, entries[k])) > 4
          THEN PayloadBytes(endian, entries[k]) ELSE <<>>)
         \o OutOfLineBytes(endian, entries, k + 1)

\* the TIFF file holding the directory
BuildTiff(endian, version, dataFirst, entries) ==
    LET n == Len(entries)
        data == OutOfLineBytes(endian, entries, 1)
        dataStart == IF dataFirst THEN 8 ELSE 8 + 2 + 12 * n + 4
        ifdOffset == IF dataFirst THEN 8 + Len(data) ELSE 8
        offsetOf(k) == dataStart + Len(data) - Len(OutOfLineBytes(endian, entries, k))
        value(k) ==
            LET pb == PayloadBytes(endian, entries[k])
            IN IF Len(pb) > 4 THEN PackElems(endian, <<"I">>, <<offsetOf(k)>>)
               ELSE [i \in 1 .. 4 |-> IF i <= Len(pb) THEN pb[i] ELSE 0]
        record(k) ==
            PackElems(endian, <<"H", "H", "I">>,
                      <<TagOf(k), entries[k].dtype, entries[k].nvalues>>) \o value(k)
        RECURSIVE table(_)
        table(k) == IF k > n THEN <<>> ELSE record(k) \o table(k + 1)
        marker == IF endian = "<" THEN <<73, 73>> ELSE <<77, 77>>
        header == marker \o PackElems(endian, <<"H", "I">>, <<version, ifdOffset>>)
        directory == (PackElems(endian, <<"H">>, <<n>>) \o table(1)) \o <<0, 0, 0, 0>>
    IN IF dataFirst THEN (header \o data) \o directory
       ELSE (header \o directory) \o data

MetaFiles ==
    {BuildTiff(e, v, df, es) :
        e \in {"<", ">"}, v \in {42, 43}, df \in BOOLEAN, es \in Directories}

\* the byte order a file's marker names
ByteOrderOf(file) == IF SubSeq(file, 1, 2) = <<77, 77>> THEN ">" ELSE "<"

\* a conforming reader: the entries of the first directory of a file, decoded in
\* the byte order of its marker.  An entry whose bytes the file does not hold, or
\* whose type is outside the table, is decoded with ok = FALSE and no values.
DecodeDir(file) ==
    LET endian == ByteOrderOf(file)
        at(pos, n) == SubSeq(file, pos + 1, pos + n)
        has(pos, n) == pos + n <= Len(file)
        ifdOffset == DecodeElem(endian, "I", at(4, 4))
        n == IF has(8, 0) /\ has(ifdOffset, 2)
             THEN DecodeElem(endian, "H", at(ifdOffset, 2)) ELSE 0
        entry(k) ==
            LET pos == ifdOffset + 2 + 12 * (k - 1)
                bad == [tag |-> -1, dtype |-> -1, nvalues |-> -1, ok |-> FALSE, vals |-> <<>>]
            IN IF ~has(pos, 8) THEN bad
               ELSE LET tag == DecodeElem(endian, "H", at(pos, 2))
                        dtype == DecodeElem(endian, "H", at(pos + 2, 2))
                        nvalues == DecodeElem(endian, "I", at(pos + 4, 4))
                        hdr == [tag |-> tag, dtype |-> dtype, nvalues |-> nvalues,
                                ok |-> FALSE, vals |-> <<>>]
                    IN IF dtype \notin DOMAIN tag_dtype THEN hdr
                       ELSE LET len == tag_dtype[dtype].nbytes * nvalues
                                fmt == Repeat(tag_dtype[dtype].format, nvalues)
                                where == IF len <= 4 THEN pos + 8
                                         ELSE IF has(pos + 8, 4)
                                         THEN DecodeElem(endian, "I", at(pos + 8, 4))
                                         ELSE Len(file)
                            IN IF ~has(where, len) THEN hdr
                               ELSE [hdr EXCEPT !.ok = TRUE,
                                                !.vals = UnpackElems(endian, fmt, at(where, len))]
    IN [k \in 1 .. n |-> entry(k)]

\* files cut short: every proper prefix of a file with one out-of-line and one
\* inline entry, in both byte orders and both layouts
TruncationBases ==
    {BuildTiff(e, 42, df, <<Entry(5, 1, <<258, 3>>), Entry(3, 1, <<258>>)>>) :
        e \in {"<", ">"}, df \in BOOLEAN}

Prefixes(file) == {SubSeq(file, 1, n) : n \in 0 .. Len(file) - 1}

TruncatedFiles == UNION {Prefixes(f) : f \in TruncationBases}

\* files whose first two bytes are no byte order mark
BadMarkers == {<<73, 77>>, <<77, 73>>, <<0, 42>>}

BadMarkerFiles ==
    {m \o SubSeq(f, 3, Len(f)) : m \in BadMarkers, f \in TruncationBases}

\* the files copy_metadata is run on
SourceFiles == (MetaFiles \cup TruncatedFiles) \cup BadMarkerFiles

\* a source the remapper accepts, for the runs of the transcoder alone
PlainSource == Source(FALSE, <<"MINISBLACK", 1>>, 1, 1, 1, 1, 1, "UINT", 8, TRUE)

InitMeta ==
    /\ tiff_file \in SourceFiles
    /\ tif = PlainSource
    /\ tilesize = <<>>
    /\ pc = "copy_metadata"
    /\ err = NoErr
    /\ tiff_fp = "open"
    /\ idx = 0
    /\ tiff_strip = Zeros(0, 0, 0)
    /\ written = <<>>
    /\ trace = <<>>
    /\ MetaInit

NextMeta ==
    \/ ProcessHeader
    \/ ProcessTagsBegin
    \/ ProcessTag
    \/ WriteUUIDBox

SpecMeta == InitMeta /\ [][NextMeta]_vars

----------------------------------------------------------------------------
(* Properties of the transcoder *)

\* the number of events of the trace with an operation of ops
Count(ops) == Cardinality({i \in 1 .. Len(trace) : trace[i].op \in ops})

\* _process_header and _process_tags have returned
TranscodeDone == pc \notin {"copy_metadata", "process_tags", "process_tag", "raised"}

\* every entry of the source directory has a type code of the table
KnownTypes == \A k \in DOMAIN DecodeDir(tiff_file) :
                 DecodeDir(tiff_file)[k].dtype \in DOMAIN tag_dtype

\* C1: round trip of the transcoder: for every source directory with known type
\* codes, in either byte order, transcoding does not raise, and the output
\* buffer decoded as a little-endian directory gives the entries of the source
\* decoded in its own byte order.
C1_RoundTrip ==
    KnownTypes =>
        /\ err.in # "copy_metadata"
        /\ TranscodeDone =>
            /\ ByteOrderOf(b.data) = "<"
            /\ DecodeDir(b.data) = DecodeDir(tiff_file)

\* the first two bytes of the source are present and are no byte order mark
BadMarker ==
    /\ Len(tiff_file) >= 2
    /\ SubSeq(tiff_file, 1, 2) \notin {<<73, 73>>, <<77, 77>>}

\* C11: bad byte-order marker: when the first two bytes of the source are neither
\* (73, 73) nor (77, 77), _process_header raises RuntimeError and the output
\* buffer stays empty.
C11_BadMarker ==
    (BadMarker /\ pc # "copy_metadata") =>
        /\ pc = "raised"
        /\ err = Raised("RuntimeError", "copy_metadata")
        /\ b.data = <<>>

\* the type code of the record the loop of _process_tags is at
CurrentType ==
    DecodeElem(ifd.endian, "H", PySlice(ifd.buffer, ifd.idx * 12 + 2, ifd.idx * 12 + 4))

\* the loop of _process_tags has raised on a complete record whose type code is
\* outside the table
RaisedOnUnknownType ==
    /\ pc = "raised" /\ err.in = "copy_metadata"
    /\ ifd.idx < ifd.num_tags
    /\ Len(ifd.buffer) >= (ifd.idx + 1) * 12
    /\ CurrentType \notin DOMAIN tag_dtype

\* C12: unknown type code: a directory with an entry whose type code is outside
\* the table is never transcoded to the end, and the error _process_tags raises
\* on such an entry is RuntimeError and no other kind.
C12_UnknownType ==
    /\ TranscodeDone => KnownTypes
    /\ RaisedOnUnknownType => err.type = "RuntimeError"

\* the source holds its header, the entry count and, for every entry, the bytes
\* a reader needs to decode it
SourceComplete ==
    /\ Len(tiff_file) >= 8
    /\ DecodeElem(ByteOrderOf(tiff_file), "I", SubSeq(tiff_file, 5, 8)) + 2 <= Len(tiff_file)
    /\ \A k \in DOMAIN DecodeDir(tiff_file) : DecodeDir(tiff_file)[k].ok

\* C13: metadata atomicity: a source cut short in the header, the entry count,
\* the entry table or an out-of-line payload never gets transcoded to the end;
\* when copy_metadata raises, whatever the cause, nothing has been appended to
\* the destination and run() does not return; what is appended is the whole
\* block, the identifier and the finished buffer, and only after the last entry.
C13_MetadataAtomic ==
    /\ TranscodeDone => SourceComplete
    /\ (err.in = "copy_metadata") =>
        (pc = "raised" /\ jp2_tail = <<>> /\ Count({"uuid_write"}) = 0)
    /\ (jp2_tail # <<>>) =>
        /\ jp2_tail = ExifIdentifier \o b.data
        /\ ifd.idx = ifd.num_tags
        /\ err = NoErr /\ pc = "returned"

\* a source cut short inside an out-of-line payload: the header, the count and
\* a record are in the buffer when the error is raised
C13_Witness ==
    /\ tiff_file \in TruncatedFiles
    /\ pc = "raised" /\ err = Raised("struct.error", "copy_metadata")
    /\ Len(b.data) > 10
    /\ jp2_tail = <<>>

\* the entries of the source as a conforming reader decodes them
SourceDir == DecodeDir(tiff_file)

\* the payload length of the k-th source entry
PayloadLength(k) == tag_dtype[SourceDir[k].dtype].nbytes * SourceDir[k].nvalues

\* the bytes of the output buffer from position pos (counted from 0), n of them
OutBytes(pos, n) == SubSeq(b.data, pos + 1, pos + n)

\* the position of the k-th record of the output table
RecordPos(k) == 10 + 12 * (k - 1)

RECURSIVE RelocatedBefore(_)
\* the summed length of the out-of-line payloads of the entries before the k-th
RelocatedBefore(k) ==
    IF k <= 1 THEN 0
    ELSE RelocatedBefore(k - 1) + (IF PayloadLength(k - 1) > 4 THEN PayloadLength(k - 1) ELSE 0)

\* C14: self-consistent offsets: once the directory is transcoded, the offset in
\* the record of every entry with a payload longer than 4 bytes is the position
\* in the buffer where that entry's payload, re-encoded little-endian, stands;
\* the payloads follow the last record in entry order without gap or overlap,
\* and none lies inside the table.
C14_SelfConsistentOffsets ==
    TranscodeDone =>
        \A k \in DOMAIN SourceDir :
            (PayloadLength(k) > 4) =>
                LET offset == DecodeElem("<", "I", OutBytes(RecordPos(k) + 8, 4))
                IN /\ offset = 10 + 12 * Len(SourceDir) + RelocatedBefore(k)
                   /\ offset + PayloadLength(k) <= Len(b.data)
                   /\ OutBytes(offset, PayloadLength(k)) =
                        PackElems("<", Repeat(tag_dtype[SourceDir[k].dtype].format,
                                             SourceDir[k].nvalues),
                                  SourceDir[k].vals)

\* tag, type and count of the k-th record of the output table
OutRecord(k) ==
    [tag |-> DecodeElem("<", "H", OutBytes(RecordPos(k), 2)),
     dtype |-> DecodeElem("<", "H", OutBytes(RecordPos(k) + 2, 2)),
     nvalues |-> DecodeElem("<", "I", OutBytes(RecordPos(k) + 4, 4))]

\* C15: entry order and identity: the output table has the entry count of the
\* source, and every record emitted so far, the i-th at the i-th place, carries
\* the tag, type and count of the i-th source entry; when the directory is
\* transcoded every entry has been emitted.
C15_EntryOrder ==
    (pc \in {"process_tag", "write_uuid", "returned"}) =>
        /\ Len(b.data) >= 10
        /\ DecodeElem("<", "H", OutBytes(8, 2)) = Len(SourceDir)
        /\ ifd.num_tags = Len(SourceDir)
        /\ TranscodeDone => ifd.idx = Len(SourceDir)
        /\ \A k \in 1 .. ifd.idx :
            /\ Len(b.data) >= RecordPos(k) + 8
            /\ OutRecord(k).tag = SourceDir[k].tag
            /\ OutRecord(k).dtype = SourceDir[k].dtype
            /\ OutRecord(k).nvalues = SourceDir[k].nvalues

\* a big-endian directory, an out-of-line entry before an inline one, transcoded
C15_Witness ==
    /\ TranscodeDone
    /\ ByteOrderOf(tiff_file) = ">"
    /\ Len(SourceDir) = 2
    /\ PayloadLength(1) > 4 /\ PayloadLength(2) <= 4

\* the source holds a whole header with a byte order mark
ValidHeader ==
    /\ Len(tiff_file) >= 8
    /\ SubSeq(tiff_file, 1, 2) \in {<<73, 73>>, <<77, 77>>}

\* the entry count of the source, read in the source's byte order at the offset
\* its header gives
SourceCount ==
    LET offset == DecodeElem(ByteOrderOf(tiff_file), "I", SubSeq(tiff_file, 5, 8))
    IN DecodeElem(ByteOrderOf(tiff_file), "H", SubSeq(tiff_file, offset + 1, offset + 2))

\* C16: canonical header: for every source with a valid marker, once
\* _process_header has run the buffer starts with the bytes 49 49 2A 00 08 00 00 00
\* whatever the source's byte order, version and directory offset, and once the
\* entry count is read it stands little-endian at byte 8.
C16_CanonicalHeader ==
    /\ (ValidHeader /\ pc # "copy_metadata") =>
        (Len(b.data) >= 8 /\ SubSeq(b.data, 1, 8) = <<73, 73, 42, 0, 8, 0, 0, 0>>)
    /\ (pc \in {"process_tag", "write_uuid", "returned"}) =>
        /\ ValidHeader
        /\ OutBytes(8, 2) = <<SourceCount % 256, SourceCount \div 256>>

\* a big-endian source of version 43 whose directory is not at offset 8
C16_Witness ==
    /\ TranscodeDone
    /\ SubSeq(tiff_file, 1, 8) = <<77, 77, 0, 43, 0, 0, 0, 16>>
    /\ SourceCount = 2

\* the k-th source entry is one byte (type 1, 2 or 7, count 1) or one unsigned
\* short (type 3, count 1), and the source holds it
OneByteOrShort(k) ==
    /\ SourceDir[k].ok
    /\ SourceDir[k].nvalues = 1
    /\ SourceDir[k].dtype \in {1, 2, 3, 7}

\* the loop of _process_tags has raised on the k-th entry
RaisedOnEntry(k) ==
    /\ pc = "raised" /\ err.in = "copy_metadata"
    /\ ifd.num_tags >= k /\ ifd.idx = k - 1

\* C17: inline widening: an entry of one byte or one unsigned short is emitted
\* without an error, its record keeps type and count, and its value field is
\* the value as a little-endian unsigned 32-bit integer, in both byte orders.
C17_InlineWidening ==
    \A k \in DOMAIN SourceDir :
        OneByteOrShort(k) =>
            /\ ~RaisedOnEntry(k)
            /\ (pc \in {"process_tag", "write_uuid", "returned"} /\ k <= ifd.idx) =>
                /\ OutRecord(k).dtype = SourceDir[k].dtype
                /\ OutRecord(k).nvalues = 1
                /\ OutBytes(RecordPos(k) + 8, 4) = EncodeElem("<", "I", SourceDir[k].vals[1])

\* the source is in the canonical form: little-endian marker, version 42,
\* directory at offset 8, every entry of a known type and held by the file
Canonical ==
    /\ Len(tiff_file) >= 8
    /\ SubSeq(tiff_file, 1, 8) = <<73, 73, 42, 0, 8, 0, 0, 0>>
    /\ SourceComplete
    /\ KnownTypes

\* C18: idempotent normalization: a source already in the canonical form is
\* transcoded without error to a buffer with the same entries (tag, type, count
\* and values), and the transcoder run on its own output gives the same entries
\* again.
C18_Idempotent ==
    /\ Canonical =>
        /\ err.in # "copy_metadata"
        /\ TranscodeDone => DecodeDir(b.data) = SourceDir
    /\ TranscodeDone =>
        /\ Transcode(b.data).ex = "none"
        /\ DecodeDir(Transcode(b.data).data) = DecodeDir(b.data)

\* C24: buffer layout: once a directory of N entries is transcoded, each of its
\* N records has its 12 bytes in the buffer and the buffer is 8 + 2 + 12 * N
\* bytes long plus the summed lengths of the out-of-line payloads.
C24_BufferLayout ==
    TranscodeDone =>
        /\ \A k \in DOMAIN SourceDir : RecordPos(k) + 12 <= Len(b.data)
        /\ Len(b.data) = 8 + 2 + 12 * Len(SourceDir) + RelocatedBefore(Len(SourceDir) + 1)

\* the k-th source entry is of a known type, is held by the source and has a
\* payload of at most 4 bytes
InlineEntry(k) ==
    /\ SourceDir[k].ok
    /\ SourceDir[k].dtype \in DOMAIN tag_dtype
    /\ PayloadLength(k) <= 4

\* C25: inline decoding covers every inline size: on an entry of a known type
\* with a payload of 0, 1, 2, 3 or 4 bytes _process_tags does not raise, and the
\* record it emits keeps tag, type and count and holds in its value field the
\* payload's elements, decoded in source byte order, as little-endian bytes.
C25_InlineSizes ==
    \A k \in DOMAIN SourceDir :
        InlineEntry(k) =>
            /\ ~RaisedOnEntry(k)
            /\ (pc \in {"process_tag", "write_uuid", "returned"} /\ k <= ifd.idx) =>
                /\ OutRecord(k) = [tag |-> SourceDir[k].tag,
                                   dtype |-> SourceDir[k].dtype,
                                   nvalues |-> SourceDir[k].nvalues]
                /\ OutBytes(RecordPos(k) + 8, PayloadLength(k)) =
                     PackElems("<", Repeat(tag_dtype[SourceDir[k].dtype].format,
                                          SourceDir[k].nvalues),
                               SourceDir[k].vals)

----------------------------------------------------------------------------
(* The whole conversion:  with Tiff2Jp2k(tiff, jp2, tilesize) as j: j.run() *)

\* a constructor that does not look whether the source exists
Construct_unchecked ==
    /\ pc = "construct"
    /\ pc' = "enter"
    /\ err' = err
    /\ UNCHANGED <<tif, tilesize, tiff_fp, imgvars, trace, tiff_file, metavars>>

\* __init__ (lines 46-64)
Construct ==
    /\ pc = "construct"
    /\ IF ~tif.exists
       THEN /\ pc' = "raised"
            /\ err' = Raised("FileNotFoundError", "__init__")
       ELSE /\ pc' = "enter"
            /\ err' = err
    /\ UNCHANGED <<tif, tilesize, tiff_fp, imgvars, trace, tiff_file, metavars>>

\* __enter__ (lines 66-68)
Enter ==
    /\ pc = "enter"
    /\ tiff_fp' = "open"
    /\ trace' = Append(trace, Event("libtiff.open", 0, -1))
    /\ pc' = "run"
    /\ UNCHANGED <<tif, tilesize, err, imgvars, tiff_file, metavars>>

\* run() is entered (line 73)
Run ==
    /\ pc = "run"
    /\ pc' = run_seq[1]
    /\ UNCHANGED <<tif, tilesize, err, tiff_fp, imgvars, trace, tiff_file, metavars>>

\* an exit that releases the handle only when run() has returned
Exit_only_after_return ==
    /\ pc = "returned"
    /\ tiff_fp = "open"
    /\ tiff_fp' = "closed"
    /\ trace' = Append(trace, Event("libtiff.close", 0, -1))
    /\ UNCHANGED <<tif, tilesize, pc, err, imgvars, tiff_file, metavars>>

\* __exit__ (lines 70-71), when run() has returned or raised
Exit ==
    /\ pc \in {"returned", "raised"}
    /\ tiff_fp = "open"
    /\ tiff_fp' = "closed"
    /\ trace' = Append(trace, Event("libtiff.close", 0, -1))
    /\ UNCHANGED <<tif, tilesize, pc, err, imgvars, tiff_file, metavars>>

\* the sources of the whole conversion: every sample format, bit depth,
\* photometric interpretation and organisation, units of one row and column
RunSources ==
    {Source(tiled, ph, w, h, 1, 1, 1, sf, bps, rgba) :
        tiled \in BOOLEAN, ph \in Photometrics,
        w \in 1 .. RunMaxDim, h \in 1 .. RunMaxDim,
        sf \in {"UINT", "IEEEFP"}, bps \in {8, 16, 32}, rgba \in BOOLEAN}
    \cup {[PlainSource EXCEPT !.exists = FALSE]}

\* their directories: inline and out-of-line entries in both byte orders, and a
\* directory the transcoder raises on
RunFiles ==
    {BuildTiff("<", 42, FALSE, <<Entry(3, 1, <<258>>), Entry(3, 3, <<258, 3, 4>>)>>),
     BuildTiff(">", 42, TRUE, <<Entry(5, 1, <<258, 3>>), Entry(4, 1, <<66051>>)>>),
     BuildTiff("<", 42, FALSE, <<Entry(3, 1, <<258>>), Entry(1, 1, <<7>>)>>)}

Init ==
    /\ tif \in RunSources
    /\ tilesize \in {<<>>} \cup ((1 .. RunMaxTile) \X (1 .. RunMaxTile))
    /\ tiff_file \in RunFiles
    /\ pc = "construct"
    /\ err = NoErr
    /\ tiff_fp = "unopened"
    /\ idx = 0
    /\ tiff_strip = Zeros(0, 0, 0)
    /\ written = <<>>
    /\ trace = <<>>
    /\ MetaInit

Next ==
    \/ Construct
    \/ Enter
    \/ Run
    \/ CopyImageValidate
    \/ CopyImageStrategy
    \/ RGBAImage
    \/ TiledTile
    \/ StripTile
    \/ ProcessHeader
    \/ ProcessTagsBegin
    \/ ProcessTag
    \/ WriteUUIDBox
    \/ Exit

Spec == Init /\ [][Next]_vars

----------------------------------------------------------------------------
(* Properties of the whole conversion *)

ImageReadOps == {"readRGBAImageOriented", "readEncodedTile", "readRGBATile",
                 "readEncodedStrip", "readRGBAStrip"}
ImageOps == ImageReadOps \cup {"Jp2k", "write"}
MetadataOps == {"open_rb", "close_rb", "uuid_write"}

\* the whole image has been handed to the destination: the single tile
\* spanning the image when no tile size is requested, else every tile of the grid
WholeImageWritten ==
    IF tilesize = <<>>
    THEN /\ Len(written) = 1
         /\ written[1].buf.rows = tif.imageheight
         /\ written[1].buf.cols = tif.imagewidth
    ELSE Len(written) = gridRows * gridCols

\* C6: no partial success: when run() has returned without raising, the whole
\* image has been written and then the whole metadata block.
C6_NoPartialSuccess ==
    (pc = "returned") =>
        /\ WholeImageWritten
        /\ jp2_tail = ExifIdentifier \o b.data
        /\ Count({"uuid_write"}) = 1

\* C7: single-shot path: with no tile size requested and the RGBA accessor
\* usable, no tile or strip is ever read, and once copy_image has returned the
\* destination has received exactly one write: the oriented whole image, every
\* sample at its place, the alpha plane dropped when samplesPerPixel < 4.
C7_SingleShot ==
    (tilesize = <<>> /\ tif.rgba_ok) =>
        /\ Count(ImageReadOps \ {"readRGBAImageOriented"}) = 0
        /\ Len(written) <= 1
        /\ ImageDone =>
            /\ Count({"write"}) = 1
            /\ Count({"readRGBAImageOriented"}) = 1
            /\ Len(written) = 1
            /\ written[1].buf.rows = tif.imageheight
            /\ written[1].buf.cols = tif.imagewidth
            /\ written[1].buf.ch = IF tif.spp < 4 THEN 3 ELSE 4
            /\ \A p \in (0 .. tif.imageheight - 1) \X (0 .. tif.imagewidth - 1) :
                written[1].buf.px[p] = p

C7_Witness ==
    /\ tilesize = <<>> /\ tif.rgba_ok /\ tif.spp < 4
    /\ tif.imageheight > 1 /\ tif.imagewidth > 1
    /\ pc = "returned"
    /\ Len(written) = 1

\* the number of writes copy_image makes when it returns: one per tile writer of
\* the destination in the retiling branches, one in the single-shot branch, none
\* when no branch is taken
TileWrites ==
    CASE Strategy(tif, tilesize) = "rgba_image" -> 1
      [] Strategy(tif, tilesize) = "none" -> 0
      [] OTHER -> NumTilewriters(tif, tilesize)

\* C9: the metadata block comes after the image: no step of copy_metadata
\* precedes a step of copy_image, once copy_metadata has started copy_image has
\* made every one of its tile writes, and when copy_image raises copy_metadata
\* is not started.
C9_MetadataAfterImage ==
    /\ \A i \in 1 .. Len(trace) : \A j \in 1 .. Len(trace) :
        (i < j) => ~(trace[i].op \in MetadataOps /\ trace[j].op \in ImageOps)
    /\ (Count(MetadataOps) > 0) =>
        (Len(written) = TileWrites /\ Count({"write"}) = TileWrites)
    /\ (err.in = "copy_image") => (Count(MetadataOps) = 0 /\ jp2_tail = <<>>)

\* a conversion that wrote several tiles and then the metadata block
C9_Witness ==
    /\ pc = "returned"
    /\ Len(written) > 1
    /\ jp2_tail # <<>>
    /\ Count(MetadataOps) = 3

\* C19: scoped resources: the source raster handle is opened once and closed
\* at most once; whenever run() has returned or raised with the handle open the
\* exit of the scope is enabled and closes it; once it is closed nothing more
\* happens (no read, no write, no second close); the file copy_metadata reads
\* is open only inside _process_header/_process_tags and closed on every way
\* out of them.
C19_ScopedResources ==
    /\ Count({"libtiff.open"}) = (IF tiff_fp = "unopened" THEN 0 ELSE 1)
    /\ Count({"libtiff.close"}) = (IF tiff_fp = "closed" THEN 1 ELSE 0)
    /\ (pc \in {"returned", "raised"} /\ tiff_fp = "open") => ENABLED Exit
    /\ (tiff_fp = "closed") =>
        /\ pc \in {"returned", "raised"}
        /\ trace[Len(trace)].op = "libtiff.close"
        /\ ~ENABLED Next
    /\ (Count(ImageOps \cup MetadataOps) > 0) => trace[1].op = "libtiff.open"
    /\ tfp.open => pc \in {"process_tags", "process_tag"}
    /\ Count({"close_rb"}) = (IF tfp.open THEN Count({"open_rb"}) - 1 ELSE Count({"open_rb"}))
    /\ Count({"open_rb"}) <= 1

\* the transcoder has raised inside its with block and the scope has been left
C19_Witness ==
    /\ pc = "raised" /\ err.in = "copy_metadata"
    /\ tiff_fp = "closed"
    /\ Count({"close_rb"}) = 1
    /\ Len(written) > 0

\* C20: missing source: when the source path does not exist the constructor
\* raises FileNotFoundError; the source is never opened, nothing is read, the
\* destination is neither created nor written, the state of the conversion is
\* as it was before the constructor ran and there is no scope to exit.
C20_MissingSource ==
    (~tif.exists) =>
        /\ pc \in {"construct", "raised"}
        /\ (pc = "raised") => err = Raised("FileNotFoundError", "__init__")
        /\ tiff_fp = "unopened"
        /\ trace = <<>>
        /\ written = <<>> /\ idx = 0
        /\ MetaInit
        /\ ~ENABLED Exit

C20_Witness ==
    /\ ~tif.exists
    /\ pc = "raised"
    /\ err = Raised("FileNotFoundError", "__init__")

\* C10: pre-flight rejection: a source whose sample format is not unsigned
\* integer or whose bits per sample is not 8 or 16 makes copy_image raise
\* RuntimeError with no pixel read, no destination created and no write.
C10_PreflightRejection ==
    (tif.exists /\ (tif.sf # "UINT" \/ tif.bps \notin {8, 16})) =>
        /\ Count(ImageOps) = 0
        /\ written = <<>>
        /\ jp2_tail = <<>>
        /\ pc \in {"construct", "enter", "run", "copy_image", "raised"}
        /\ (pc = "raised") => err = Raised("RuntimeError", "copy_image")

C10_Witness ==
    /\ tif.sf = "UINT" /\ tif.bps = 32
    /\ pc = "raised"
    /\ err = Raised("RuntimeError", "copy_image")
    /\ tiff_fp = "closed"

\* C26: channel agreement: every pixel buffer handed to the destination, in the
\* single-shot, the tiled and the strip strategy, has as many channels as the
\* samplesPerPixel the destination was created with, and no tile is lost to a
\* channel mismatch (a ValueError of the slice assignment) while it is assembled.
C26_ChannelAgreement ==
    /\ \A k \in 1 .. Len(written) : written[k].buf.ch = tif.spp
    /\ ~(pc = "raised" /\ err = Raised("ValueError", "copy_image"))

====
